---- MODULE Spec2Model ----
(***************************************************************************)
(* Model of main.py: the pipeline                                          *)
(*   extract_pitch -> generate_notes -> generate_guitar_tabs               *)
(*   -> print_guitar_tabs                                                  *)
(* run on one audio file.                                                  *)
(*                                                                         *)
(* Representation.                                                         *)
(*  - A Python str that the code indexes or measures (note labels, fret    *)
(*    labels, tab slots, printed lines) is a sequence of one-character     *)
(*    strings: "C#4" is <<"C", "#", "4">>.                                 *)
(*  - A pitch estimate is [silent, midi_note]: silent is "frequency == 0"  *)
(*    (line 71), and for a non-zero frequency midi_note is the value of    *)
(*    round(12*log2(pitch/440)+69) (lines 75-78).  The FFT and log2 are    *)
(*    not computed; their results are inputs chosen per frame.             *)
(*  - A duration run*hop_length/sr (a Python float) is the exact fraction  *)
(*    [num |-> run*hop_length, den |-> sr].                                *)
(***************************************************************************)
EXTENDS Integers, Sequences, FiniteSets, TLC

VARIABLES
    audio_len,        \* len(audio) of the file read at line 29
    sr,               \* sample rate read at line 29
    frame_size,       \* extract_pitch parameter
    hop_length,       \* extract_pitch / generate_notes parameter
    num_frames,       \* line 40 (a one-element sequence once computed)
    pitch_sequence,   \* pitches returned by extract_pitch
    notes,            \* generate_notes: notes (line 98)
    smoothed_notes,   \* generate_notes: smoothed_notes (line 101)
    combined_notes,   \* generate_notes: combined_notes; main's notes
    tabs,             \* generate_guitar_tabs: tabs
    k,                \* number of events the loop at line 147 has processed
    string,           \* generate_guitar_tabs: string of the last iteration
    fret,             \* generate_guitar_tabs: fret of the last iteration
    midi_note,        \* generate_guitar_tabs: midi_note (<<>> while unbound)
    repeat,           \* generate_guitar_tabs: repeat of the last iteration
    printed,          \* the lines print_guitar_tabs has written
    pc,               \* the stage of main that runs next
    err               \* the exception that ended the run ("" if none)

vars == <<audio_len, sr, frame_size, hop_length, num_frames, pitch_sequence,
          notes, smoothed_notes, combined_notes, tabs, k, string, fret,
          midi_note, repeat, printed, pc, err>>

----------------------------------------------------------------------------
(* Bounds of the model *)

\* most frames of a file whose pitch sequences are enumerated in full
MaxFrames == 4

\* frames of the one long file, whose pitch sequences are the steady ones
LongFrames == 13

\* MIDI numbers (beyond 0 below, beyond 127 above) a one-frame file may carry
MidiBelow == 14
MidiAbove == 14

----------------------------------------------------------------------------
(* Program constants *)

SAMPLE_RATE == 44100

DefaultFrameSize == 2048

DefaultHopLength == 512

DefaultWindowSize == 5

Max(a, b) == IF a >= b THEN a ELSE b

Min(a, b) == IF a <= b THEN a ELSE b

----------------------------------------------------------------------------
(* Strings *)

Digits == <<"0", "1", "2", "3", "4", "5", "6", "7", "8", "9">>

RECURSIVE NatToStr(_)
NatToStr(n) ==
    IF n < 10 THEN <<Digits[n + 1]>>
    ELSE NatToStr(n \div 10) \o <<Digits[(n % 10) + 1]>>

\* str(n) / f"{n}" of a Python int
IntToStr(n) == IF n < 0 THEN <<"-">> \o NatToStr(-n) ELSE NatToStr(n)

IsDigit(c) == \E d \in 1..10 : Digits[d] = c

\* int(c) of a one-character str that is a digit
DigitValue(c) == (CHOOSE d \in 1..10 : Digits[d] = c) - 1

\* s.rjust(width)
RECURSIVE rjust(_, _)
rjust(s, width) == IF Len(s) >= width THEN s ELSE rjust(<<" ">> \o s, width)

\* ''.join(parts)
RECURSIVE Join(_)
Join(parts) == IF parts = <<>> THEN <<>> ELSE Head(parts) \o Join(Tail(parts))

\* ["-"] * n   (the empty list when n <= 0)
Dashes(n) == [i \in 1..n |-> <<"-">>]

----------------------------------------------------------------------------
(* pitch_to_note, lines 67-84 *)

note_names == << <<"C">>, <<"C", "#">>, <<"D">>, <<"D", "#">>, <<"E">>, <<"F">>,
                 <<"F", "#">>, <<"G">>, <<"G", "#">>, <<"A">>, <<"A", "#">>, <<"B">> >>

Rest == <<"R", "e", "s", "t">>

Silence == [silent |-> TRUE, midi_note |-> 0]

Tone(m) == [silent |-> FALSE, midi_note |-> m]

\* faulty variant: the "pitch == 0" test is missing
pitch_to_note_NoRest(pitch) ==
    note_names[(pitch.midi_note % 12) + 1] \o IntToStr((pitch.midi_note \div 12) - 1)

pitch_to_note(pitch) ==
    IF pitch.silent THEN Rest
    ELSE note_names[(pitch.midi_note % 12) + 1]
             \o IntToStr((pitch.midi_note \div 12) - 1)

----------------------------------------------------------------------------
(* smooth_notes, lines 87-95 *)

Count(window, x) == Cardinality({j \in DOMAIN window : window[j] = x})

\* notes[max(0, i-window_size//2) : i+window_size//2+1], i counted from 1
Window(ns, i, window_size) ==
    SubSeq(ns, Max(1, i - window_size \div 2), Min(Len(ns), i + window_size \div 2))

SmoothAt(ns, i, window_size) ==
    LET window == Window(ns, i, window_size)
    IN  IF Count(window, window[1]) > Len(window) \div 2
        THEN window[1]
        ELSE ns[i]

\* faulty variant: the loop stops one position early
smooth_notes_Short(ns, window_size) ==
    [i \in 1..(Len(ns) - 1) |-> SmoothAt(ns, i, window_size)]

smooth_notes(ns, window_size) ==
    [i \in 1..Len(ns) |-> SmoothAt(ns, i, window_size)]

----------------------------------------------------------------------------
(* generate_notes, lines 97-116 *)

\* (note, duration * hop_length / sr)
Event(note, duration, hop, rate) == <<note, [num |-> duration * hop, den |-> rate]>>

\* the loop of lines 107-113 over the remaining notes, then the flush of line 114
RECURSIVE CombineLoop(_, _, _, _, _, _)
CombineLoop(rest, current_note, duration, combined, hop, rate) ==
    IF rest = <<>>
    THEN Append(combined, Event(current_note, duration, hop, rate))
    ELSE IF Head(rest) = current_note
         THEN CombineLoop(Tail(rest), current_note, duration + 1, combined, hop, rate)
         ELSE CombineLoop(Tail(rest), Head(rest), 1,
                          Append(combined, Event(current_note, duration, hop, rate)),
                          hop, rate)

\* faulty variant: the final run is not flushed (line 114 missing)
RECURSIVE CombineLoop_NoFlush(_, _, _, _, _, _)
CombineLoop_NoFlush(rest, current_note, duration, combined, hop, rate) ==
    IF rest = <<>>
    THEN combined
    ELSE IF Head(rest) = current_note
         THEN CombineLoop_NoFlush(Tail(rest), current_note, duration + 1, combined,
                                  hop, rate)
         ELSE CombineLoop_NoFlush(Tail(rest), Head(rest), 1,
                          Append(combined, Event(current_note, duration, hop, rate)),
                          hop, rate)

\* faulty variant: a change of note is not detected, the scan only counts
RECURSIVE CombineLoop_NoSplit(_, _, _, _, _, _)
CombineLoop_NoSplit(rest, current_note, duration, combined, hop, rate) ==
    IF rest = <<>>
    THEN Append(combined, Event(current_note, duration, hop, rate))
    ELSE CombineLoop_NoSplit(Tail(rest), current_note, duration + 1, combined,
                             hop, rate)

\* faulty variant of combine_notes
combine_notes_NoFlush(smoothed, hop, rate) ==
    CombineLoop_NoFlush(Tail(smoothed), smoothed[1], 1, <<>>, hop, rate)

\* faulty variant of combine_notes
combine_notes_NoSplit(smoothed, hop, rate) ==
    CombineLoop_NoSplit(Tail(smoothed), smoothed[1], 1, <<>>, hop, rate)

\* lines 104-116, for a non-empty smoothed sequence
combine_notes(smoothed, hop, rate) ==
    CombineLoop(Tail(smoothed), smoothed[1], 1, <<>>, hop, rate)

----------------------------------------------------------------------------
(* note_to_midi, lines 119-123 *)

\* notes.index(note_name), counted from 0; 12 when index() raises ValueError
NameIndex(note_name) ==
    IF \E i \in 1..12 : note_names[i] = note_name
    THEN (CHOOSE i \in 1..12 : note_names[i] = note_name) - 1
    ELSE 12

\* int(note[-1]) or notes.index(note[:-1]) raises ValueError
note_to_midi_raises(note) ==
    \/ ~IsDigit(note[Len(note)])
    \/ NameIndex(SubSeq(note, 1, Len(note) - 1)) = 12

note_to_midi(note) ==
    NameIndex(SubSeq(note, 1, Len(note) - 1))
        + (DigitValue(note[Len(note)]) + 1) * 12

----------------------------------------------------------------------------
(* midi_to_guitar_tab, lines 125-142 *)

strings == <<"E", "A", "D", "G", "B", "e">>

open_strings == <<40, 45, 50, 55, 59, 64>>

\* the loop of lines 132-137 from string i on; returns <<best_string, best_fret>>
RECURSIVE FretSearch(_, _, _, _)
FretSearch(i, m, best_string, best_fret) ==
    IF i > Len(open_strings) THEN <<best_string, best_fret>>
    ELSE IF /\ m >= open_strings[i]
            /\ m - open_strings[i] <= 20
            /\ m - open_strings[i] < best_fret
         THEN FretSearch(i + 1, m, i, m - open_strings[i])
         ELSE FretSearch(i + 1, m, best_string, best_fret)

\* faulty variant: "midi_note > open_string" instead of ">="
RECURSIVE FretSearch_Strict(_, _, _, _)
FretSearch_Strict(i, m, best_string, best_fret) ==
    IF i > Len(open_strings) THEN <<best_string, best_fret>>
    ELSE IF /\ m > open_strings[i]
            /\ m - open_strings[i] <= 20
            /\ m - open_strings[i] < best_fret
         THEN FretSearch_Strict(i + 1, m, i, m - open_strings[i])
         ELSE FretSearch_Strict(i + 1, m, best_string, best_fret)

Unplayable == <<"-", <<"-">>>>

\* faulty variant of midi_to_guitar_tab
midi_to_guitar_tab_Strict(m) ==
    LET best == FretSearch_Strict(1, m, 1, 100)
    IN  IF best[2] = 100 THEN Unplayable
        ELSE <<strings[best[1]], IntToStr(best[2])>>

\* returns <<string, fret>>, fret being str(best_fret)
midi_to_guitar_tab(m) ==
    LET best == FretSearch(1, m, 1, 100)
    IN  IF best[2] = 100 THEN Unplayable
        ELSE <<strings[best[1]], IntToStr(best[2])>>

----------------------------------------------------------------------------
(* generate_guitar_tabs, lines 144-169 *)

\* the keys of tabs, in insertion order (line 145)
TabStrings == <<"e", "B", "G", "D", "A", "E">>

TabKeys == {TabStrings[i] : i \in 1..Len(TabStrings)}

EmptyTabs == [s \in TabKeys |-> <<>>]

\* faulty variant: truncation without the max(1, ...) floor
Repeat_NoFloor(duration) == (duration.num * 10) \div duration.den

\* line 156: max(1, int(duration * 10))
Repeat(duration) == Max(1, (duration.num * 10) \div duration.den)

\* faulty variant: the label is appended in front of all `repeat` dashes
AppendEvent_Extra(t, str, frt, rep) ==
    [s \in TabKeys |->
        IF s = str THEN (t[s] \o <<rjust(frt, 2)>>) \o Dashes(rep)
        ELSE t[s] \o Dashes(rep)]

\* lines 157-162
AppendEvent(t, str, frt, rep) ==
    [s \in TabKeys |->
        IF s = str THEN (t[s] \o <<rjust(frt, 2)>>) \o Dashes(rep - 1)
        ELSE t[s] \o Dashes(rep)]

\* line 165
MaxLength(t) ==
    CHOOSE n \in {Len(t[s]) : s \in TabKeys} :
        \A s \in TabKeys : Len(t[s]) <= n

\* lines 165-167
PadTabs(t) == [s \in TabKeys |-> t[s] \o Dashes(MaxLength(t) - Len(t[s]))]

----------------------------------------------------------------------------
(* print_guitar_tabs, lines 171-173 *)

\* f"{string}|{''.join(frets)}|"
TabLine(s, frets) == (<<s, "|">> \o Join(frets)) \o <<"|">>

print_guitar_tabs(t) == [i \in 1..Len(TabStrings) |-> TabLine(TabStrings[i], t[TabStrings[i]])]

----------------------------------------------------------------------------
(* Inputs *)

SampleRates == {SAMPLE_RATE, 8000}

HopLengths == {DefaultHopLength, 1024}

\* file lengths: empty, shorter than one frame, and exactly or almost n frames
AudioLens(fs, hop) ==
    {0, 1, fs - 1}
        \cup {fs + (n - 1) * hop + d :
                 n \in (1..MaxFrames) \cup {LongFrames}, d \in {0, hop - 1}}

SmallPitches == {Silence, Tone(39), Tone(40), Tone(60), Tone(132)}

WidePitches == {Silence} \cup {Tone(m) : m \in (0 - MidiBelow)..(127 + MidiAbove)}

\* the pitch sequences enumerated for a file of n frames
PitchSeqs(n) ==
    IF n = 1 THEN {<<p>> : p \in WidePitches}
    ELSE IF n <= MaxFrames THEN [1..n -> SmallPitches]
    ELSE {[i \in 1..n |-> p] : p \in SmallPitches}

----------------------------------------------------------------------------
(* The pipeline of main, lines 176-189 *)

Init ==
    /\ sr \in SampleRates
    /\ frame_size = DefaultFrameSize
    /\ hop_length \in HopLengths
    /\ audio_len \in AudioLens(frame_size, hop_length)
    /\ num_frames = <<>>
    /\ pitch_sequence = <<>>
    /\ notes = <<>>
    /\ smoothed_notes = <<>>
    /\ combined_notes = <<>>
    /\ tabs = EmptyTabs
    /\ k = 0
    /\ string = ""
    /\ fret = <<>>
    /\ midi_note = <<>>
    /\ repeat = 0
    /\ printed = <<>>
    /\ pc = "extract_pitch"
    /\ err = ""

\* line 40
NumFrames(len, fs, hop) == 1 + ((len - fs) \div hop)

\* extract_pitch, lines 27-65.  np.max of the empty array (line 37) raises
\* ValueError; range(num_frames) is empty when num_frames <= 0.
ExtractPitch ==
    /\ pc = "extract_pitch"
    /\ IF audio_len = 0
       THEN /\ pc' = "error"
            /\ err' = "ValueError"
            /\ UNCHANGED <<num_frames, pitch_sequence>>
       ELSE /\ num_frames' = <<NumFrames(audio_len, frame_size, hop_length)>>
            /\ \E ps \in PitchSeqs(Max(0, num_frames'[1])) : pitch_sequence' = ps
            /\ pc' = "generate_notes"
            /\ err' = ""
    /\ UNCHANGED <<audio_len, sr, frame_size, hop_length, notes, smoothed_notes,
                   combined_notes, tabs, k, string, fret, midi_note, repeat,
                   printed>>

\* generate_notes, lines 97-116.  smoothed_notes[0] (line 105) raises
\* IndexError on the empty sequence.
GenerateNotes ==
    /\ pc = "generate_notes"
    /\ notes' = [i \in 1..Len(pitch_sequence) |-> pitch_to_note(pitch_sequence[i])]
    /\ smoothed_notes' = smooth_notes(notes', DefaultWindowSize)
    /\ IF smoothed_notes' = <<>>
       THEN /\ pc' = "error"
            /\ err' = "IndexError"
            /\ UNCHANGED combined_notes
       ELSE /\ combined_notes' = combine_notes(smoothed_notes', hop_length, sr)
            /\ pc' = "generate_guitar_tabs"
            /\ err' = ""
    /\ UNCHANGED <<audio_len, sr, frame_size, hop_length, num_frames,
                   pitch_sequence, tabs, k, string, fret, midi_note, repeat,
                   printed>>

\* generate_guitar_tabs, one iteration of the loop of lines 147-162
TabEvent ==
    /\ pc = "generate_guitar_tabs"
    /\ k < Len(combined_notes)
    /\ LET note == combined_notes[k + 1][1]
           duration == combined_notes[k + 1][2]
       IN  IF note # Rest /\ note_to_midi_raises(note)
           THEN /\ pc' = "error"
                /\ err' = "ValueError"
                /\ UNCHANGED <<tabs, k, string, fret, midi_note, repeat>>
           ELSE /\ IF note = Rest
                   THEN /\ fret' = <<"-">>
                        /\ string' = "-"
                        /\ UNCHANGED midi_note
                   ELSE /\ midi_note' = <<note_to_midi(note)>>
                        /\ string' = midi_to_guitar_tab(midi_note'[1])[1]
                        /\ fret' = midi_to_guitar_tab(midi_note'[1])[2]
                /\ repeat' = Repeat(duration)
                /\ tabs' = AppendEvent(tabs, string', fret', repeat')
                /\ k' = k + 1
                /\ UNCHANGED <<pc, err>>
    /\ UNCHANGED <<audio_len, sr, frame_size, hop_length, num_frames,
                   pitch_sequence, notes, smoothed_notes, combined_notes, printed>>

\* generate_guitar_tabs, lines 164-169: padding and return
TabPad ==
    /\ pc = "generate_guitar_tabs"
    /\ k = Len(combined_notes)
    /\ tabs' = PadTabs(tabs)
    /\ pc' = "print_guitar_tabs"
    /\ UNCHANGED <<audio_len, sr, frame_size, hop_length, num_frames,
                   pitch_sequence, notes, smoothed_notes, combined_notes, k,
                   string, fret, midi_note, repeat, printed, err>>

\* print_guitar_tabs, lines 171-173
PrintTabs ==
    /\ pc = "print_guitar_tabs"
    /\ printed' = print_guitar_tabs(tabs)
    /\ pc' = "done"
    /\ UNCHANGED <<audio_len, sr, frame_size, hop_length, num_frames,
                   pitch_sequence, notes, smoothed_notes, combined_notes, tabs, k,
                   string, fret, midi_note, repeat, err>>

Next == ExtractPitch \/ GenerateNotes \/ TabEvent \/ TabPad \/ PrintTabs

Spec == Init /\ [][Next]_vars

----------------------------------------------------------------------------
(* Properties *)

\* generate_notes has returned
Segmented ==
    \/ pc \in {"generate_guitar_tabs", "print_guitar_tabs", "done"}
    \/ (pc = "error" /\ err = "ValueError" /\ notes # <<>>)

\* generate_guitar_tabs has returned
Rendered == pc \in {"print_guitar_tabs", "done"}

RECURSIVE SumNum(_)
SumNum(events) ==
    IF events = <<>> THEN 0 ELSE Head(events)[2].num + SumNum(Tail(events))

\* C1: for a non-empty note sequence the events of generate_notes partition
\* the input: every duration is a count of frames times hop_length over sr,
\* and the counts sum to the number of input notes, so the durations sum to
\* len(notes) * hop_length / sr.
C1_Partition ==
    Segmented =>
        /\ \A i \in 1..Len(combined_notes) : combined_notes[i][2].den = sr
        /\ SumNum(combined_notes) = Len(pitch_sequence) * hop_length

C1_Witness ==
    /\ Segmented
    /\ Len(pitch_sequence) = 4
    /\ Len(combined_notes) = 3

\* the strings that can play MIDI number m
Qualifying(m) ==
    {i \in 1..6 : open_strings[i] <= m /\ m - open_strings[i] <= 20}

\* C2: midi_to_guitar_tab returns the qualifying string of smallest fret (the
\* lower-pitched one on a tie), ("-", "-") when no string qualifies, which is
\* exactly below MIDI 40 and above MIDI 84; 40 -> (E,0), 64 -> (e,0),
\* 60 -> (B,1), 39 -> (-,-).
C2_LowestFret ==
    (k >= 1 /\ combined_notes[k][1] # Rest) =>
        LET m == midi_note[1]
        IN  /\ (Qualifying(m) = {}) <=> (m < 40 \/ m > 84)
            /\ IF Qualifying(m) = {}
               THEN string = "-" /\ fret = <<"-">>
               ELSE \E i \in Qualifying(m) :
                       /\ \A j \in Qualifying(m) :
                              /\ m - open_strings[i] <= m - open_strings[j]
                              /\ (open_strings[i] = open_strings[j]) => i <= j
                       /\ string = strings[i]
                       /\ fret = IntToStr(m - open_strings[i])
            /\ (m = 40) => (string = "E" /\ fret = <<"0">>)
            /\ (m = 64) => (string = "e" /\ fret = <<"0">>)
            /\ (m = 60) => (string = "B" /\ fret = <<"1">>)
            /\ (m = 39) => (string = "-" /\ fret = <<"-">>)

C2_Witness ==
    /\ pc = "done"
    /\ k = 3
    /\ midi_note = <<60>>
    /\ string = "B"
    /\ combined_notes[1][1] = pitch_to_note(Tone(39))

\* the label is the one pitch_to_note gives a MIDI number outside 40..84
OutOfRange(note) ==
    \E m \in (0 - MidiBelow)..(127 + MidiAbove) :
        /\ m < 40 \/ m > 84
        /\ note = pitch_to_note(Tone(m))

\* C3: an event whose label pitch_to_note produced for a MIDI number below 40
\* or above 84 (any octave, negative and two-digit ones included) never makes
\* generate_guitar_tabs raise; the event gets ("-", "-") and only dash slots
\* on all six strings.
C3_UnplayableNeverRaises ==
    \A i \in 1..Len(combined_notes) :
        OutOfRange(combined_notes[i][1]) =>
            /\ ~(pc = "error" /\ k = i - 1)
            /\ (k = i) =>
                  /\ string = "-" /\ fret = <<"-">>
                  /\ \A s \in TabKeys :
                        \A j \in (Len(tabs[s]) - repeat + 1)..Len(tabs[s]) :
                            tabs[s][j] = <<"-">>

Abs(x) == IF x < 0 THEN 0 - x ELSE x

\* q is a/b rounded to the nearest integer, halves to the even one (round())
IsRound(q, a, b) ==
    \/ 2 * Abs(a - q * b) < b
    \/ (2 * Abs(a - q * b) = b /\ q % 2 = 0)

\* r = max(1, round(duration * 10))
IsRoundSlots(r, duration) ==
    \/ (r >= 1 /\ IsRound(r, 10 * duration.num, duration.den))
    \/ (r = 1 /\ IsRound(0, 10 * duration.num, duration.den))

\* r = max(1, floor(duration * 10))
IsTruncSlots(r, duration) ==
    \/ (r >= 1 /\ r * duration.den <= 10 * duration.num
               /\ 10 * duration.num < (r + 1) * duration.den)
    \/ (r = 1 /\ 10 * duration.num < duration.den)

\* C4 as stated: every event gets max(1, round(duration * 10)) slots on every
\* string, rounding to nearest.
C4_RoundSlots ==
    [][(k' = k + 1) =>
          /\ IsRoundSlots(repeat', combined_notes[k'][2])
          /\ \A s \in TabKeys : Len(tabs'[s]) = Len(tabs[s]) + repeat']_vars

\* C4 amended: every event gets max(1, int(duration * 10)) slots on every
\* string, the product truncated, not rounded: a run of 13 frames at hop 512
\* and 44100 Hz (duration * 10 = 1.509...) occupies 1 slot.
C4_TruncSlots ==
    [][(k' = k + 1) =>
          /\ IsTruncSlots(repeat', combined_notes[k'][2])
          /\ \A s \in TabKeys : Len(tabs'[s]) = Len(tabs[s]) + repeat']_vars

C4_Witness ==
    /\ k = 1
    /\ combined_notes[1][2] = [num |-> 13 * 512, den |-> 44100]
    /\ repeat = 1
    /\ \A s \in TabKeys : Len(tabs[s]) = 1

\* C5: extract_pitch fails with InvalidInput whenever num_frames <= 0, and
\* never returns an empty pitch sequence.
C5_ShortBufferFails ==
    /\ (num_frames # <<>> /\ num_frames[1] <= 0) =>
           (pc = "error" /\ err = "InvalidInput")
    /\ (pc = "generate_notes") => pitch_sequence # <<>>

\* C6: the six printed lines have the same number of characters.
C6_LinesAligned ==
    (pc = "done") =>
        \A i, j \in 1..Len(printed) : Len(printed[i]) = Len(printed[j])

RECURSIVE SumRepeat(_, _)
SumRepeat(events, n) ==
    IF n = 0 THEN 0 ELSE Repeat(events[n][2]) + SumRepeat(events, n - 1)

\* C7: after each processed event, and after the padding, the six slot
\* sequences have the same length, the sum of the repeat counts of the events
\* processed so far.
C7_EqualLength ==
    \A s \in TabKeys : Len(tabs[s]) = SumRepeat(combined_notes, k)

C7_Witness ==
    /\ pc = "generate_guitar_tabs"
    /\ k = 3
    /\ string = "B"
    /\ OutOfRange(combined_notes[1][1])
    /\ combined_notes[2][1] = Rest
    /\ Len(tabs["e"]) >= 4

AllSilent ==
    /\ pitch_sequence # <<>>
    /\ \A i \in 1..Len(pitch_sequence) : pitch_sequence[i].silent

\* C8: a fully silent input of n >= 1 frames gives exactly one event
\* (Rest, n * hop_length / sr), and the tablature holds only dash slots, at
\* least one on each of the six strings, with no fret label.
C8_SilentInput ==
    AllSilent =>
        /\ pc # "error"
        /\ Segmented =>
              combined_notes =
                  << <<Rest, [num |-> Len(pitch_sequence) * hop_length, den |-> sr]>> >>
        /\ \A s \in TabKeys : \A j \in 1..Len(tabs[s]) : tabs[s][j] = <<"-">>
        /\ Rendered => \A s \in TabKeys : Len(tabs[s]) >= 1
        /\ (pc = "done") =>
              \A i \in 1..Len(printed) :
                  \A j \in 2..Len(printed[i]) : printed[i][j] \in {"|", "-"}

C8_Witness ==
    /\ pc = "done"
    /\ AllSilent
    /\ Len(pitch_sequence) = LongFrames
    /\ Len(tabs["e"]) >= 2

\* every boundary-clamped window of ns holds one value only
WindowUniform(ns, window_size) ==
    \A i \in 1..Len(ns) :
        \A j \in Max(1, i - window_size \div 2)..Min(Len(ns), i + window_size \div 2) :
            ns[j] = ns[Max(1, i - window_size \div 2)]

\* C9: a note sequence that is uniform over every window is a fixed point of
\* smooth_notes.
C9_FixedPoint ==
    (pc \notin {"extract_pitch", "generate_notes"}
         /\ WindowUniform(notes, DefaultWindowSize)) =>
        smoothed_notes = notes

C9_Witness ==
    /\ Segmented
    /\ Len(notes) = 4
    /\ notes[1] # Rest
    /\ WindowUniform(notes, DefaultWindowSize)

\* the notes the events stand for, each repeated run-length times
RECURSIVE Expand(_, _)
Expand(events, hop) ==
    IF events = <<>> THEN <<>>
    ELSE [i \in 1..(Head(events)[2].num \div hop) |-> Head(events)[1]]
             \o Expand(Tail(events), hop)

\* C10: the events of generate_notes are maximal runs: consecutive events
\* differ in their note, every run length is at least 1, and the events
\* expand to the smoothed note sequence.
C10_MaximalRuns ==
    Segmented =>
        /\ \A i \in 1..(Len(combined_notes) - 1) :
               combined_notes[i][1] # combined_notes[i + 1][1]
        /\ \A i \in 1..Len(combined_notes) :
               /\ combined_notes[i][2].num >= hop_length
               /\ combined_notes[i][2].num % hop_length = 0
        /\ Expand(combined_notes, hop_length) = smoothed_notes

C10_Witness ==
    /\ Segmented
    /\ Len(combined_notes) = 2
    /\ combined_notes[1][1] = Rest
    /\ combined_notes[2][2].num = 3 * hop_length

====
